---- MODULE Spec2Model ----
(***************************************************************************)
(* State-machine model of napari_matplotlib's MetadataLine2DWidget         *)
(* (line.py) on top of NapariMPLWidget (base.py): the host notifications,  *)
(* the key selection, the redraw, line / legend picking, the right-click   *)
(* clear and the span selection with its metadata write-back.              *)
(* The row methods of NapariMPLWidget's grid of axes are modelled on a     *)
(* figure of their own (SpecGrid): no control of the widget calls them.    *)
(* SpecSeries runs the widget over series of every flat and nested shape,  *)
(* SpecWarp applies warp_to_list alone to every value it can be handed.    *)
(*                                                                         *)
(* Python objects are modelled by value.  An artist that axes.clear() has  *)
(* removed from the axes keeps its record wherever the widget still        *)
(* references it, with live = FALSE.  Sequence positions are 1-based here  *)
(* (Python index i is position i + 1).  A handler that raises stops where  *)
(* it raises; what it assigned before stays assigned and the exception's   *)
(* type is recorded in last.err.                                           *)
(***************************************************************************)
EXTENDS Integers, Sequences, FiniteSets, TLC

VARIABLES
    layers,                   \* self.layers: the selected layers (layer ids)
    metadata,                 \* layer.metadata of every layer of the viewer
    plugin_name_key,          \* self._plugin_name_key (NoAttr until first set)
    x_axis_key,               \* self._x_axis_key
    y_axis_key,               \* self._y_axis_key
    lines,                    \* self._lines
    selected_lines,           \* self._selected_lines
    selected_span_intervals,  \* self._selected_span_intervals
    legend,                   \* self.legend together with self.legend2line
    span_selection_active,    \* self.span_selection_active / span_selector.active
    legend_selection_active,  \* self.legend_selection_active
    figure_axes,              \* canvas.figure.axes of the widget the grid methods act on
    previous_axes_list,       \* self.previous_axes_list of that widget
    widget_axes,              \* self.axes of that widget (Line2DBaseWidget)
    printed,                  \* what the grid method called last has printed
    raw_data,                 \* the value warp_to_list is called on and returns
    class_lines,              \* Line2DBaseWidget._lines, the list of the class
    instance_lines,           \* the _lines attribute of each of two more widgets
    last,                     \* history: the event handled last
    events                    \* history: the number of events handled so far

vars == <<layers, metadata, plugin_name_key, x_axis_key, y_axis_key, lines,
          selected_lines, selected_span_intervals, legend,
          span_selection_active, legend_selection_active,
          figure_axes, previous_axes_list, widget_axes, printed, raw_data,
          class_lines, instance_lines, last, events>>

-----------------------------------------------------------------------------
(* Bounds of the model *)

\* span limits xmin <= xmax are drawn from 0 .. MaxSpanX: on the samples (the
\* even numbers) and between them
MaxSpanX == 7
\* the number of events handled in one behaviour
MaxEvents == 4

\* number of calls handled in a behaviour of the grid
MaxGridEvents == 6

\* the grid grows to MaxRows rows at most
MaxRows == 3

\* an axes of the grid takes MaxAxesLines plotted lines at most
MaxAxesLines == 2

\* the arrays and lists handed to warp_to_list have MaxSamples samples at most
MaxSamples == 3

\* 2D arrays and frames have MaxRowsCols rows and columns at most, lists of
\* arrays MaxRowsCols arrays
MaxRowsCols == 2

\* warp_to_list is applied MaxWarps times in a row
MaxWarps == 2

\* a draw of one of the two widgets has MaxSeries y series at most
MaxSeries == 2

\* number of events the two widgets handle together
MaxInstanceEvents == 4

-----------------------------------------------------------------------------
(* Python values *)

None == "<None>"
NoAttr == "<no attribute>"
NoModifier == "NoModifier"
ShiftModifier == "ShiftModifier"
KeyboardModifiers == {NoModifier, ShiftModifier}

\* _line_alpha = 0.5, in percent
line_alpha == 50

Min(a, b) == IF a < b THEN a ELSE b

NdArray1(s) == [kind |-> "ndarray1", val |-> s]
NdArray2(rows) == [kind |-> "ndarray2", val |-> rows]
DataFrame(rows) == [kind |-> "DataFrame", val |-> rows]
NumList(s) == [kind |-> "numlist", val |-> s]
PyList(items) == [kind |-> "list", val |-> items]
PyStr == [kind |-> "str", val |-> <<>>]
PyDict(d) == [kind |-> "dict", val |-> d]

\* DataFrame.T.values.tolist(): one list per column
Transpose(rows) ==
    IF Len(rows) = 0 THEN <<>>
    ELSE [c \in 1..Len(rows[1]) |-> [r \in 1..Len(rows) |-> rows[r][c]]]

\* the normalization gone wrong: a list is wrapped like a 1D array
warp_to_list_wrapping(data) ==
    IF data.kind \in {"list", "numlist", "ndarray1"} THEN PyList(<<data>>)
    ELSE IF data.kind = "ndarray2"
        THEN PyList([i \in 1..Len(data.val) |-> NumList(data.val[i])])
    ELSE IF data.kind = "DataFrame"
        THEN PyList([i \in 1..Len(Transpose(data.val)) |->
                        NumList(Transpose(data.val)[i])])
    ELSE data

warp_to_list(data) ==
    IF data.kind \in {"list", "numlist"} THEN data
    ELSE IF data.kind = "ndarray1" THEN PyList(<<NumList(data.val)>>)
    ELSE IF data.kind = "ndarray2"
        THEN PyList([i \in 1..Len(data.val) |-> NumList(data.val[i])])
    ELSE IF data.kind = "DataFrame"
        THEN LET cols == Transpose(data.val)
             IN PyList([i \in 1..Len(cols) |-> NumList(cols[i])])
    ELSE data

-----------------------------------------------------------------------------
(* The viewer's layers and their metadata at start *)

Layers == {1, 2}

\* the order of metadata.items() of each layer
MetadataKeys(l) == IF l = 1 THEN <<"note", "plugin1", "plugin2">> ELSE <<"note">>

Plugin1Dict ==
    [k \in {"t", "v", "w"} |->
        CASE k = "t" -> PyList(<<NdArray1(<<0, 2, 4, 6>>), NdArray1(<<4, 6, 8>>)>>)
          [] k = "v" -> PyList(<<NdArray1(<<10, 11, 12, 13>>), NdArray1(<<20, 21, 22>>)>>)
          [] k = "w" -> NdArray1(<<30, 31, 32, 33>>)]

Plugin2Dict ==
    [k \in {"t", "v"} |->
        CASE k = "t" -> NdArray2(<<<<2, 4, 6>>, <<2, 4, 6>>>>)
          [] k = "v" -> DataFrame(<<<<40, 50>>, <<41, 51>>, <<42, 52>>>>)]

InitialMetadata ==
    [l \in Layers |->
        IF l = 1
        THEN [k \in {"note", "plugin1", "plugin2"} |->
                CASE k = "note" -> PyStr
                  [] k = "plugin1" -> PyDict(Plugin1Dict)
                  [] k = "plugin2" -> PyDict(Plugin2Dict)]
        ELSE [k \in {"note"} |-> PyStr]]

\* what viewer.layers.selection can be
LayerSelections == {<<>>, <<1>>, <<2>>, <<1, 2>>}

\* the series keys the user picks the x axis key and the y axis key from
XKeys == {"t", "w"}
YKeys == {"v", "w"}

-----------------------------------------------------------------------------
(* The widget as one value, for composing the methods of one handler.  A    *)
(* method is an operator from the widget before it to the widget after it;  *)
(* err # "none" says that it raised, and the methods after it are skipped.  *)

Widget ==
    [layers |-> layers, metadata |-> metadata, plugin_name_key |-> plugin_name_key,
     x_axis_key |-> x_axis_key, y_axis_key |-> y_axis_key, lines |-> lines,
     selected_lines |-> selected_lines,
     selected_span_intervals |-> selected_span_intervals, legend |-> legend,
     span_selection_active |-> span_selection_active,
     legend_selection_active |-> legend_selection_active,
     err |-> "none"]

Raise(w, e) == [w EXCEPT !.err = e]

NoLegend == [exists |-> FALSE, live |-> FALSE, handles |-> <<>>, legend2line |-> <<>>]

Dead(artists) == [i \in 1..Len(artists) |-> [artists[i] EXCEPT !.live = FALSE]]

\* Line2DBaseWidget.clear: axes.clear() removes every artist from the axes;
\* the widget's own references to them are left as they are
clear(w) ==
    [w EXCEPT !.lines = Dead(@),
              !.selected_lines = Dead(@),
              !.selected_span_intervals = Dead(@),
              !.legend = [@ EXCEPT !.live = FALSE]]

IsDictEntry(w, k) == w.metadata[w.layers[1]][k].kind = "dict"

_get_valid_metadata_keys(w) ==
    IF Len(w.layers) = 0 THEN <<>>
    ELSE [i \in 1..Cardinality({j \in 1..Len(MetadataKeys(w.layers[1])) :
                                    IsDictEntry(w, MetadataKeys(w.layers[1])[j])}) |->
            MetadataKeys(w.layers[1])[
                CHOOSE j \in 1..Len(MetadataKeys(w.layers[1])) :
                    /\ IsDictEntry(w, MetadataKeys(w.layers[1])[j])
                    /\ Cardinality({h \in 1..j :
                            IsDictEntry(w, MetadataKeys(w.layers[1])[h])}) = i]]

\* if not hasattr(self, "plugin_name_key"): self.plugin_name_key = <first valid key>
DefaultPluginName(w) ==
    IF w.plugin_name_key = NoAttr
    THEN [w EXCEPT !.plugin_name_key = _get_valid_metadata_keys(w)[1]]
    ELSE w

\* self.layers[0].metadata[self.plugin_name_key].keys()
PluginKeys(w) ==
    IF w.plugin_name_key \notin DOMAIN w.metadata[w.layers[1]] THEN Raise(w, "KeyError")
    ELSE IF w.metadata[w.layers[1]][w.plugin_name_key].kind # "dict"
    THEN Raise(w, "AttributeError")
    ELSE w

\* the widget after _get_valid_axis_keys has run (it assigns plugin_name_key
\* when the attribute is missing, and raises when the key is not in the layer)
_get_valid_axis_keys(w) ==
    IF Len(w.layers) = 0 \/ _get_valid_metadata_keys(w) = <<>> THEN w
    ELSE PluginKeys(DefaultPluginName(w))

\* the choices _get_valid_axis_keys returns when it does not raise
AxisKeyChoices(w) ==
    IF Len(w.layers) = 0 \/ _get_valid_metadata_keys(w) = <<>> THEN {}
    ELSE DOMAIN w.metadata[w.layers[1]][w.plugin_name_key].val

\* what _get_data returns: the widget after it, and the data unless empty
NoData(w) == [w |-> w, empty |-> TRUE, data_x |-> PyStr, data_y |-> PyStr]

PluginMetadataDict(w) == w.metadata[w.layers[1]][w.plugin_name_key].val

LookUpData(w) ==
    IF w.plugin_name_key \notin DOMAIN w.metadata[w.layers[1]]
    THEN NoData(Raise(w, "KeyError"))
    ELSE IF w.metadata[w.layers[1]][w.plugin_name_key].kind # "dict"
    THEN NoData(Raise(w, "TypeError"))
    ELSE IF w.x_axis_key \notin DOMAIN PluginMetadataDict(w)
            \/ w.y_axis_key \notin DOMAIN PluginMetadataDict(w)
    THEN NoData(Raise(w, "KeyError"))
    ELSE [w |-> w, empty |-> FALSE,
          data_x |-> warp_to_list(PluginMetadataDict(w)[w.x_axis_key]),
          data_y |-> warp_to_list(PluginMetadataDict(w)[w.y_axis_key])]

\* MetadataLine2DWidget._get_data
_get_data(w) ==
    IF _get_valid_metadata_keys(w) = <<>> \/ w.x_axis_key = None \/ w.y_axis_key = None
    THEN NoData(w)
    ELSE LookUpData(DefaultPluginName(w))

\* len(data) for what warp_to_list can return: -1 when len() raises
PyLen(data) ==
    IF data.kind \in {"list", "numlist", "str"} THEN Len(data.val)
    ELSE IF data.kind = "dict" THEN Cardinality(DOMAIN data.val)
    ELSE -1

\* data[i - 1] of a Python list
Item(data, i) == IF data.kind = "numlist" THEN [kind |-> "num", val |-> <<data.val[i]>>]
                 ELSE data.val[i]

\* what Line2D takes as xdata / ydata: a flat sequence of numbers
IsSeries(v) == v.kind \in {"ndarray1", "numlist"}

\* the constructor gone wrong: a new line is born selected
InteractiveLine2D_selected(xdata, ydata) ==
    [x |-> xdata, y |-> ydata, selected |-> "True", linestyle |-> "--",
     visible |-> TRUE, live |-> TRUE]

\* InteractiveLine2D.__init__: a new line is solid and its _selected is None
InteractiveLine2D(xdata, ydata) ==
    [x |-> xdata, y |-> ydata, selected |-> "None", linestyle |-> "-",
     visible |-> TRUE, live |-> TRUE]

\* the exception that building and adding line i raises ("none": it is added)
LineError(x_data, y_data, i) ==
    IF PyLen(x_data) = 1 THEN "TypeError"   \* x_data= is no parameter of Line2D
    ELSE IF i > PyLen(x_data) THEN "IndexError"
    ELSE IF ~IsSeries(Item(x_data, i)) \/ ~IsSeries(Item(y_data, i)) THEN "RuntimeError"
    ELSE IF Len(Item(x_data, i).val) # Len(Item(y_data, i).val) THEN "ValueError"
    ELSE "none"

\* the first y series whose line cannot be built, PyLen(y_data) + 1 when all can
FirstFailing(x_data, y_data) ==
    IF \A i \in 1..PyLen(y_data) : LineError(x_data, y_data, i) = "none"
    THEN PyLen(y_data) + 1
    ELSE CHOOSE i \in 1..PyLen(y_data) :
            /\ LineError(x_data, y_data, i) # "none"
            /\ \A j \in 1..(i - 1) : LineError(x_data, y_data, j) = "none"

\* the legend linked the wrong way round: entry i to line n + 1 - i
BuildLegend_reversed(n) ==
    [exists |-> TRUE, live |-> TRUE,
     handles |-> [i \in 1..n |-> [linestyle |-> "-", alpha |-> line_alpha]],
     legend2line |-> [i \in 1..n |-> n + 1 - i]]

\* the legend of the drawn lines and the legend2line table (draw, legend part)
BuildLegend(n) ==
    [exists |-> TRUE, live |-> TRUE,
     handles |-> [i \in 1..n |-> [linestyle |-> "-", alpha |-> line_alpha]],
     legend2line |-> [i \in 1..n |-> i]]

DrawLegend(w) ==
    IF w.legend_selection_active
    THEN [w EXCEPT !.legend = BuildLegend(Len(w.lines))]
    ELSE w

\* the loop of draw: one line per y series, until one cannot be built
DrawLines(w, x_data, y_data, first) ==
    IF first <= PyLen(y_data)
    THEN Raise([w EXCEPT !.lines = [i \in 1..(first - 1) |->
                    InteractiveLine2D(Item(x_data, i).val, Item(y_data, i).val)]],
               LineError(x_data, y_data, first))
    ELSE DrawLegend([w EXCEPT !.lines = [i \in 1..PyLen(y_data) |->
                    InteractiveLine2D(Item(x_data, i).val, Item(y_data, i).val)]])

DrawData(g) ==
    IF g.w.err # "none" \/ g.empty THEN g.w
    ELSE IF PyLen(g.data_x) < 0 \/ PyLen(g.data_y) < 0 \/ g.data_y.kind \in {"str", "dict"}
    THEN Raise([g.w EXCEPT !.lines = <<>>], "TypeError")
    ELSE DrawLines([g.w EXCEPT !.lines = <<>>], g.data_x, g.data_y,
                   FirstFailing(g.data_x, g.data_y))

\* Line2DBaseWidget.draw
draw(w) == DrawData(_get_data(w))

\* Interval(1, 1) of MetadataLine2DWidget.n_layers_input
n_layers_input(n) == n = 1

DrawIfLayersValid(w) == IF n_layers_input(Len(w.layers)) THEN draw(w) ELSE w

\* NapariMPLWidget._draw
_draw(w) == DrawIfLayersValid(clear(w))

-----------------------------------------------------------------------------
(* Picking *)

\* position of the first element of seq equal to e, 0 when there is none
IndexOf(seq, e) ==
    IF \E i \in 1..Len(seq) : seq[i] = e
    THEN CHOOSE i \in 1..Len(seq) : seq[i] = e /\ \A j \in 1..(i - 1) : seq[j] # e
    ELSE 0

\* list.remove(e), for e in the list
Remove(seq, e) ==
    [i \in 1..(Len(seq) - 1) |-> IF i < IndexOf(seq, e) THEN seq[i] ELSE seq[i + 1]]

\* a reference to the line object at position i of the current lines
LineRef(i) == [idx |-> i, live |-> TRUE]

\* InteractiveLine2D.selected setter
SetSelected(line, value) ==
    [line EXCEPT !.selected = IF value THEN "True" ELSE "False",
                 !.linestyle = IF value THEN "--" ELSE "-"]

\* legend_line.set_linestyle(style), when legend_line is not None (0 here)
SetLegendLinestyle(lgd, legend_line, style) ==
    IF legend_line = 0 THEN lgd
    ELSE [lgd EXCEPT !.handles[legend_line].linestyle = style]

\* the toggle gone wrong: a line picked again stays in the selected list
TogglePicked_without_remove(w, line, legend_line) ==
    IF w.lines[line].selected = "True"
    THEN [w EXCEPT !.lines[line] = SetSelected(@, FALSE),
                   !.legend = SetLegendLinestyle(@, legend_line, "-")]
    ELSE [w EXCEPT !.lines[line] = SetSelected(@, TRUE),
                   !.selected_lines =
                        IF IndexOf(@, LineRef(line)) = 0 THEN Append(@, LineRef(line)) ELSE @,
                   !.legend = SetLegendLinestyle(@, legend_line, "--")]

\* the body of _on_pick once line and legend_line are resolved
TogglePicked(w, line, legend_line) ==
    IF w.lines[line].selected = "True"
    THEN [w EXCEPT !.lines[line] = SetSelected(@, FALSE),
                   !.selected_lines =
                        IF IndexOf(@, LineRef(line)) # 0 THEN Remove(@, LineRef(line)) ELSE @,
                   !.legend = SetLegendLinestyle(@, legend_line, "-")]
    ELSE [w EXCEPT !.lines[line] = SetSelected(@, TRUE),
                   !.selected_lines =
                        IF IndexOf(@, LineRef(line)) = 0 THEN Append(@, LineRef(line)) ELSE @,
                   !.legend = SetLegendLinestyle(@, legend_line, "--")]

\* MetadataLine2DWidget._on_pick; artist = [via |-> "legend" | "line", idx |-> position]
_on_pick(w, artist) ==
    IF artist.via = "legend"
    THEN TogglePicked(w, w.legend.legend2line[artist.idx], artist.idx)
    ELSE IF w.legend_selection_active
    THEN IF ~w.legend.exists THEN Raise(w, "AttributeError")
         ELSE IF artist.idx > Len(w.legend.handles) THEN Raise(w, "IndexError")
         ELSE TogglePicked(w, artist.idx, artist.idx)
    ELSE TogglePicked(w, artist.idx, 0)

-----------------------------------------------------------------------------
(* Span selection *)

\* np.searchsorted(x, v) on ascending x: the leftmost insertion point
searchsorted(x, v) == Cardinality({i \in 1..Len(x) : x[i] < v})

\* seq[a:b] of Python, for a >= 0
PySlice(seq, a, b) ==
    IF b < 0
    THEN (IF a >= b + Len(seq) THEN <<>> ELSE SubSeq(seq, a + 1, b + Len(seq)))
    ELSE (IF a >= Min(b, Len(seq)) THEN <<>> ELSE SubSeq(seq, a + 1, Min(b, Len(seq))))

\* indmax without the clamp to the last valid index
indmax_unclamped(x, xmax) == searchsorted(x, xmax)

\* indmin and indmax of _on_span_select for one line's x
indmin(x, xmin) == searchsorted(x, xmin)
indmax(x, xmax) == Min(Len(x) - 1, searchsorted(x, xmax))

\* series[indmin:indmax]
Region(series, x, xmin, xmax) == PySlice(series, indmin(x, xmin), indmax(x, xmax))

\* what axes.plot(x, y, 'o') returns: a marker-only line on the axes
Overlay(x, y) == [x |-> x, y |-> y, live |-> TRUE]

\* whether the new region is concatenated onto the stored selection of the line
ConcatenateToPrevious(modifiers, intervals, lns) ==
    modifiers = ShiftModifier /\ Len(intervals) = Len(lns)

\* the body of the loop of _on_span_select for line i
SelectRegion(intervals, lns, i, region_x, region_y, modifiers) ==
    IF Len(region_x) >= 2
    THEN IF ConcatenateToPrevious(modifiers, intervals, lns)
         THEN [intervals EXCEPT ![i] = Overlay(@.x \o region_x, @.y \o region_y)]
         ELSE Append(intervals, Overlay(region_x, region_y))
    ELSE intervals

\* the loop over the lines of _on_span_select, from line i on
RECURSIVE SpanLoop(_, _, _, _, _, _)
SpanLoop(intervals, lns, i, xmin, xmax, modifiers) ==
    IF i > Len(lns) THEN intervals
    ELSE SpanLoop(SelectRegion(intervals, lns, i,
                               Region(lns[i].x, lns[i].x, xmin, xmax),
                               Region(lns[i].y, lns[i].x, xmin, xmax), modifiers),
                  lns, i + 1, xmin, xmax, modifiers)

\* whether the prior selection is dropped at the start of a span event
DiscardPrevious(modifiers) == modifiers # ShiftModifier

IntervalKey(axis_key) == "selected_interval_" \o axis_key

\* d[key] = value of a Python dict
DictSet(d, key, value) == [k \in DOMAIN d \cup {key} |-> IF k = key THEN value ELSE d[k]]

\* self.layers[0].metadata[self.plugin_name_key]['selected_interval_' + axis_key] = value
StoreInMetadata(w, axis_key, value) ==
    IF Len(w.layers) = 0 THEN Raise(w, "IndexError")
    ELSE IF w.plugin_name_key = NoAttr THEN Raise(w, "AttributeError")
    ELSE IF w.plugin_name_key \notin DOMAIN w.metadata[w.layers[1]] THEN Raise(w, "KeyError")
    ELSE IF axis_key = None THEN Raise(w, "TypeError")
    ELSE IF w.metadata[w.layers[1]][w.plugin_name_key].kind # "dict" THEN Raise(w, "TypeError")
    ELSE [w EXCEPT !.metadata[w.layers[1]][w.plugin_name_key].val =
                        DictSet(@, IntervalKey(axis_key), value)]

\* [line.get_xdata() for line in self._selected_span_intervals], and for ydata
XDataList(intervals) == PyList([i \in 1..Len(intervals) |-> NdArray1(intervals[i].x)])
YDataList(intervals) == PyList([i \in 1..Len(intervals) |-> NdArray1(intervals[i].y)])

\* the y write-back gone wrong: the y arrays stored under the x key
StoreYIntervals_under_x_key(w) ==
    IF w.err # "none" THEN w
    ELSE StoreInMetadata(w, w.x_axis_key, YDataList(w.selected_span_intervals))

StoreYIntervals(w) ==
    IF w.err # "none" THEN w
    ELSE StoreInMetadata(w, w.y_axis_key, YDataList(w.selected_span_intervals))

\* the write-back at the end of _on_span_select
PersistIntervals(w) ==
    StoreYIntervals(StoreInMetadata(w, w.x_axis_key, XDataList(w.selected_span_intervals)))

\* _on_span_select after its clear() and draw()
SelectIntervals(w, xmin, xmax, modifiers) ==
    IF w.err # "none" THEN w
    ELSE IF Len(w.lines) > 0
    THEN PersistIntervals(
            [w EXCEPT !.selected_span_intervals =
                SpanLoop(IF DiscardPrevious(modifiers) THEN <<>> ELSE @,
                         w.lines, 1, xmin, xmax, modifiers)])
    ELSE w

\* MetadataLine2DWidget._on_span_select
_on_span_select(w, xmin, xmax, modifiers) ==
    SelectIntervals(draw(clear(w)), xmin, xmax, modifiers)

-----------------------------------------------------------------------------
(* Clearing *)

\* the loop over zip(self._lines, self.legend.get_lines()) of _clear_selections
RestoreLegend(w) ==
    IF ~w.legend.exists THEN Raise(w, "AttributeError")
    ELSE [w EXCEPT
            !.lines = [i \in 1..Len(@) |->
                        IF i <= Len(w.legend.handles)
                        THEN [@[i] EXCEPT !.visible = TRUE] ELSE @[i]],
            !.legend.handles = [i \in 1..Len(@) |->
                        IF i <= Len(w.lines)
                        THEN [@[i] EXCEPT !.alpha = line_alpha] ELSE @[i]]]

\* the clear gone wrong: the list of the selected lines is not emptied
ClearLegendSelection_keeps_list(w) ==
    IF w.legend_selection_active THEN RestoreLegend(w) ELSE w

ClearLegendSelection(w) ==
    IF w.legend_selection_active
    THEN RestoreLegend([w EXCEPT !.selected_lines = <<>>])
    ELSE w

\* the span selector exists from __init__ on: _on_span_select(0, 0)
ClearSpanSelection(w, modifiers) ==
    IF w.err # "none" THEN w ELSE _on_span_select(w, 0, 0, modifiers)

\* MetadataLine2DWidget._clear_selections
_clear_selections(w, modifiers) == ClearSpanSelection(ClearLegendSelection(w), modifiers)

\* MetadataLine2DWidget._on_click
_on_click(w, button, modifiers) ==
    IF button = 3 THEN _clear_selections(w, modifiers) ELSE w

-----------------------------------------------------------------------------
(* Host notifications and key selection *)

ResetAxisKeys(w) ==
    IF w.err # "none" THEN w
    ELSE [w EXCEPT !.x_axis_key = None, !.y_axis_key = None]

\* MetadataLine2DWidget._on_update_layers (reset_choices runs the choices callbacks)
_on_update_layers(w) == ResetAxisKeys(_get_valid_axis_keys(w))

DrawUnlessRaised(w) == IF w.err # "none" THEN w ELSE _draw(w)

\* NapariMPLWidget.update_layers
update_layers(w, selection) ==
    DrawUnlessRaised(_on_update_layers([w EXCEPT !.layers = selection]))

\* MetadataLine2DWidget._set_axis_keys
_set_axis_keys(w, x_key, y_key) ==
    _draw([w EXCEPT !.x_axis_key = x_key, !.y_axis_key = y_key])

\* MetadataLine2DWidget._set_plugin_name
_set_plugin_name(w, plugin_name) ==
    _get_valid_axis_keys([w EXCEPT !.plugin_name_key = plugin_name])

\* the toggle gone wrong: switching the span selector also drops the selection
_enable_span_selector_clearing(w, active) ==
    [w EXCEPT !.span_selection_active = active, !.selected_span_intervals = <<>>]

\* Line2DBaseWidget._enable_span_selector (the span selector exists after __init__)
_enable_span_selector(w, active) == [w EXCEPT !.span_selection_active = active]

\* Line2DBaseWidget._enable_legend_selector
_enable_legend_selector(w, active) == [w EXCEPT !.legend_selection_active = active]

\* MetadataLine2DWidget.enable_span_selector; button_state is what the toolbar
\* reports as the checked state of its 'Select' button
enable_span_selector(w, button_state) == _enable_span_selector(w, button_state)

-----------------------------------------------------------------------------
(* The state machine *)

\* history of one event: its kind, the keyboard modifiers it saw, the line
\* position or mouse button it was about, the exception it raised and, for a
\* span event, the x sub-series it selected for each line (<<>>: none)
Event(kind, modifiers, idx, err, regions) ==
    [kind |-> kind, modifiers |-> modifiers, idx |-> idx, err |-> err,
     regions |-> regions]

\* the x sub-series a span selects for each of the lines: at least 2 samples
SelectedRegions(lns, xmin, xmax) ==
    [i \in 1..Len(lns) |->
        IF Len(Region(lns[i].x, lns[i].x, xmin, xmax)) >= 2
        THEN Region(lns[i].x, lns[i].x, xmin, xmax)
        ELSE <<>>]

\* MetadataLine2DWidget.__init__ with the given layers selected in a viewer
\* whose layers hold the given metadata
ConstructedWith(selection, layer_metadata) ==
    _enable_legend_selector(
        _get_valid_axis_keys(
            _draw([layers |-> selection, metadata |-> layer_metadata,
                   plugin_name_key |-> NoAttr, x_axis_key |-> None, y_axis_key |-> None,
                   lines |-> <<>>, selected_lines |-> <<>>,
                   selected_span_intervals |-> <<>>, legend |-> NoLegend,
                   span_selection_active |-> FALSE, legend_selection_active |-> FALSE,
                   err |-> "none"])),
        TRUE)

\* MetadataLine2DWidget.__init__ with the given layers selected in the viewer
Constructed(selection) == ConstructedWith(selection, InitialMetadata)

\* the two further line widgets of the same viewer
Instances == {1, 2}

\* an instance that has no _lines attribute of its own reads the list of the
\* class; attr says which list object self._lines is: "none" (no instance
\* attribute), "class" (bound to the list object of the class) or "own"
NoInstanceAttribute == [attr |-> "none", val |-> <<>>]

\* self.axes before figure.subplots() has returned it
NoAxes == [exists |-> FALSE, live |-> FALSE]

\* the widget w, no grid call and the value d in the hands of warp_to_list
InitialWith(w, d) ==
    /\ raw_data = d
    /\ class_lines = <<>>
    /\ instance_lines = [k \in Instances |-> NoInstanceAttribute]
    /\ layers = w.layers
    /\ metadata = w.metadata
    /\ plugin_name_key = w.plugin_name_key
    /\ x_axis_key = w.x_axis_key
    /\ y_axis_key = w.y_axis_key
    /\ lines = w.lines
    /\ selected_lines = w.selected_lines
    /\ selected_span_intervals = w.selected_span_intervals
    /\ legend = w.legend
    /\ span_selection_active = w.span_selection_active
    /\ legend_selection_active = w.legend_selection_active
    /\ figure_axes = <<>>
    /\ previous_axes_list = <<>>
    /\ widget_axes = NoAxes
    /\ printed = None
    /\ last = Event("init", None, 0, "none", <<>>)
    /\ events = 0

InitialState(w) == InitialWith(w, None)

Init == \E selection \in {<<>>, <<1>>} : InitialState(Constructed(selection))

\* the handler has left the widget as w
Becomes(w, kind, modifiers, idx, regions) ==
    /\ events < MaxEvents
    /\ events' = events + 1
    /\ layers' = w.layers
    /\ metadata' = w.metadata
    /\ plugin_name_key' = w.plugin_name_key
    /\ x_axis_key' = w.x_axis_key
    /\ y_axis_key' = w.y_axis_key
    /\ lines' = w.lines
    /\ selected_lines' = w.selected_lines
    /\ selected_span_intervals' = w.selected_span_intervals
    /\ legend' = w.legend
    /\ span_selection_active' = w.span_selection_active
    /\ legend_selection_active' = w.legend_selection_active
    /\ last' = Event(kind, modifiers, idx, w.err, regions)
    /\ UNCHANGED <<figure_axes, previous_axes_list, widget_axes, printed, raw_data,
                   class_lines, instance_lines>>

\* the host reports a new layer selection
UpdateLayers(selection) ==
    /\ selection # layers
    /\ Becomes(update_layers(Widget, selection), "update_layers", None, 0, <<>>)

\* the host reports a new dimension step
CurrentStep == Becomes(_draw(Widget), "current_step", None, 0, <<>>)

\* the user picks a plugin name among the choices
SetPluginName(plugin_name) ==
    /\ \E i \in 1..Len(_get_valid_metadata_keys(Widget)) :
            _get_valid_metadata_keys(Widget)[i] = plugin_name
    /\ Becomes(_set_plugin_name(Widget, plugin_name), "set_plugin_name", None, 0, <<>>)

\* the user picks both axis keys among the choices and presses "plot"
SetAxisKeys(x_key, y_key) ==
    /\ plugin_name_key # NoAttr
    /\ {x_key, y_key} \subseteq AxisKeyChoices(Widget)
    /\ Becomes(_set_axis_keys(Widget, x_key, y_key), "set_axis_keys", None, 0, <<>>)

\* the artists of the canvas that fire pick events
Pickable ==
    {[via |-> "line", idx |-> i] : i \in {j \in 1..Len(lines) : lines[j].live}}
    \cup {[via |-> "legend", idx |-> i] :
            i \in {j \in 1..Len(legend.handles) : legend.exists /\ legend.live}}

\* the user clicks on a line or on a legend entry
Pick(artist) ==
    /\ artist \in Pickable
    /\ Becomes(_on_pick(Widget, artist), "pick", None, artist.idx, <<>>)

\* the user presses a mouse button on the canvas
Click(button, modifiers) ==
    Becomes(_on_click(Widget, button, modifiers), "click", modifiers, button, <<>>)

SpanHandled(w, xmin, xmax, modifiers) ==
    Becomes(w, "span", modifiers, 0,
            IF w.err = "none" THEN SelectedRegions(w.lines, xmin, xmax) ELSE <<>>)

\* the user drags a span while the span selector is active
SpanSelect(xmin, xmax, modifiers) ==
    /\ span_selection_active
    /\ xmin <= xmax
    /\ SpanHandled(_on_span_select(Widget, xmin, xmax, modifiers), xmin, xmax, modifiers)

\* the user clicks the 'Select' toolbar button
EnableSpanSelector(button_state) ==
    Becomes(enable_span_selector(Widget, button_state),
            "enable_span_selector", None, 0, <<>>)

\* _enable_legend_selector called again after __init__ (no control of the widget
\* does it: it is not part of Next)
EnableLegendSelector(active) ==
    /\ active # legend_selection_active
    /\ Becomes(_enable_legend_selector(Widget, active), "enable_legend_selector", None, 0, <<>>)

Next ==
    \/ \E selection \in LayerSelections : UpdateLayers(selection)
    \/ CurrentStep
    \/ \E plugin_name \in {"plugin1", "plugin2"} : SetPluginName(plugin_name)
    \/ \E x_key \in XKeys, y_key \in YKeys : SetAxisKeys(x_key, y_key)
    \/ \E artist \in Pickable : Pick(artist)
    \/ \E button \in {1, 3}, modifiers \in KeyboardModifiers : Click(button, modifiers)
    \/ \E xmin \in 0..MaxSpanX, xmax \in 0..MaxSpanX, modifiers \in KeyboardModifiers :
            SpanSelect(xmin, xmax, modifiers)
    \/ \E button_state \in BOOLEAN : EnableSpanSelector(button_state)

Spec == Init /\ [][Next]_vars

\* the widget driven by its events and by calls of _enable_legend_selector
NextWithLegendSelector ==
    \/ Next
    \/ \E active \in BOOLEAN : EnableLegendSelector(active)

SpecWithLegendSelector == Init /\ [][NextWithLegendSelector]_vars

-----------------------------------------------------------------------------
(* The widget over series of every shape warp_to_list tells apart *)

\* the shapes of a series entry of the plugin's dictionary: a 1D array, a flat
\* list of numbers, a list of two arrays
SeriesKinds == {"ndarray1", "numlist", "list"}

\* the entry under key "t" / key "v" of plugin1 in each shape; the flat ones
\* are of equal length
SeriesEntry(kind, first, second) ==
    CASE kind = "ndarray1" -> NdArray1(first)
      [] kind = "numlist" -> NumList(first)
      [] kind = "list" -> PyList(<<NdArray1(first), NdArray1(second)>>)

SeriesMetadata(x_kind, y_kind) ==
    [InitialMetadata EXCEPT ![1]["plugin1"] =
        PyDict([k \in {"t", "v"} |->
                    IF k = "t" THEN SeriesEntry(x_kind, <<0, 2, 4, 6>>, <<4, 6, 8>>)
                    ELSE SeriesEntry(y_kind, <<10, 11, 12, 13>>, <<20, 21, 22>>)])]

InitSeries ==
    \E x_kind \in SeriesKinds, y_kind \in SeriesKinds :
        InitialState(ConstructedWith(<<1>>, SeriesMetadata(x_kind, y_kind)))

\* the widget driven by its events over these layers
SpecSeries == InitSeries /\ [][Next]_vars

-----------------------------------------------------------------------------
(* warp_to_list on its own *)

\* the numbers the samples are drawn from
SampleValues == {0, 1}

Scalar(n) == [kind |-> "num", val |-> <<n>>]

\* flat sequences of n samples at most
Samples(n) == UNION {[1..k -> SampleValues] : k \in 0..n}

\* r rows of c samples, for r and c up to n
Tables(n) == UNION {[1..r -> [1..c -> SampleValues]] : r \in 1..n, c \in 1..n}

\* the values warp_to_list has a case for
SupportedValues ==
    {NdArray1(x) : x \in Samples(MaxSamples)}
    \cup {NumList(x) : x \in Samples(MaxSamples)}
    \cup {NdArray2(rows) : rows \in Tables(MaxRowsCols)}
    \cup {DataFrame(rows) : rows \in Tables(MaxRowsCols)}
    \cup {PyList(items) :
            items \in UNION {[1..k -> {NdArray1(x) : x \in Samples(2) \ {<<>>}}] :
                                k \in 1..MaxRowsCols}}

\* a scalar, a string, a dictionary
UnsupportedValues ==
    {Scalar(n) : n \in SampleValues} \cup {PyStr, PyDict(Plugin2Dict)}

\* the function applied to the value at hand: raw_data = warp_to_list(raw_data)
WarpToList ==
    /\ events < MaxWarps
    /\ events' = events + 1
    /\ raw_data' = warp_to_list(raw_data)
    /\ last' = Event("warp_to_list", None, 0, "none", <<>>)
    /\ UNCHANGED <<layers, metadata, plugin_name_key, x_axis_key, y_axis_key, lines,
                   selected_lines, selected_span_intervals, legend,
                   span_selection_active, legend_selection_active,
                   figure_axes, previous_axes_list, widget_axes, printed,
                   class_lines, instance_lines>>

InitWarp ==
    \E raw \in SupportedValues \cup UnsupportedValues :
        InitialWith(Constructed(<<>>), raw)

NextWarp == WarpToList

\* warp_to_list applied to every value again and again
SpecWarp == InitWarp /\ [][NextWarp]_vars

-----------------------------------------------------------------------------
(* Two widgets and the _lines list of their class *)

\* the class attribute and the instance attributes as one value
Registries ==
    [class_lines |-> class_lines, instance_lines |-> instance_lines, err |-> "none"]

\* what self._lines evaluates to in instance k
LinesOf(r, k) ==
    IF r.instance_lines[k].attr = "own" THEN r.instance_lines[k].val ELSE r.class_lines

\* a change made to the list object self._lines of instance k, or to the
\* line objects in it
InPlace(r, k, new_lines) ==
    IF r.instance_lines[k].attr = "own"
    THEN [r EXCEPT !.instance_lines[k].val = new_lines]
    ELSE [r EXCEPT !.class_lines = new_lines]

\* the draw gone wrong: the lines are added without a new list being assigned
ResetLines_skipped(r, k) == r

\* self._lines = []: instance k gets a list object of its own
ResetLines(r, k) == [r EXCEPT !.instance_lines[k] = [attr |-> "own", val |-> <<>>]]

\* self._lines += [line]: the list object self._lines is extended in place and
\* assigned to the instance
AddLine(r, k, line) ==
    IF r.instance_lines[k].attr = "own"
    THEN [r EXCEPT !.instance_lines[k].val = Append(@, line)]
    ELSE [r EXCEPT !.class_lines = Append(@, line),
                   !.instance_lines[k] = [attr |-> "class", val |-> <<>>]]

\* line i of a draw of instance k, on the axes of instance k
LineOn(k, i) ==
    [x |-> <<0, 2, 4>>, y |-> <<10 * k + i, 10 * k + i + 1, 10 * k + i + 2>>,
     selected |-> "None", linestyle |-> "-", visible |-> TRUE, live |-> TRUE,
     axes |-> k]

\* the loop of draw from y series i on; with a single x series the line
\* cannot be built
RECURSIVE AddLines(_, _, _, _, _)
AddLines(r, k, n_y, single_x, i) ==
    IF i > n_y THEN r
    ELSE IF single_x THEN Raise(r, "TypeError")
    ELSE AddLines(AddLine(r, k, LineOn(k, i)), k, n_y, single_x, i + 1)

\* Line2DBaseWidget.draw of instance k over n_y y series (none: no data)
DrawInstance(r, k, n_y, single_x) ==
    IF n_y = 0 THEN r
    ELSE AddLines(ResetLines(r, k), k, n_y, single_x, 1)

\* Line2DBaseWidget.clear of instance k: the artists of its axes are removed
ClearInstance(r, k) ==
    InPlace(r, k, [i \in 1..Len(LinesOf(r, k)) |->
                    IF LinesOf(r, k)[i].axes = k
                    THEN [LinesOf(r, k)[i] EXCEPT !.live = FALSE]
                    ELSE LinesOf(r, k)[i]])

\* _on_pick of instance k on its line i: line.selected is toggled
PickInstance(r, k, i) ==
    InPlace(r, k, [LinesOf(r, k) EXCEPT
                        ![i] = SetSelected(@, LinesOf(r, k)[i].selected # "True")])

\* the handler of instance k has left the lists as r
InstanceBecomes(r, kind, k) ==
    /\ events < MaxInstanceEvents
    /\ events' = events + 1
    /\ class_lines' = r.class_lines
    /\ instance_lines' = r.instance_lines
    /\ last' = Event(kind, None, k, r.err, <<>>)
    /\ UNCHANGED <<layers, metadata, plugin_name_key, x_axis_key, y_axis_key, lines,
                   selected_lines, selected_span_intervals, legend,
                   span_selection_active, legend_selection_active,
                   figure_axes, previous_axes_list, widget_axes, printed, raw_data>>

\* instance k redraws (NapariMPLWidget._draw: clear, then draw)
DrawOn(k, n_y, single_x) ==
    InstanceBecomes(DrawInstance(ClearInstance(Registries, k), k, n_y, single_x),
                    "instance_draw", k)

\* the axes of instance k is cleared
ClearOn(k) == InstanceBecomes(ClearInstance(Registries, k), "instance_clear", k)

\* a line of instance k, on its canvas, is picked
PickOn(k, i) ==
    /\ i \in 1..Len(LinesOf(Registries, k))
    /\ LinesOf(Registries, k)[i].live
    /\ LinesOf(Registries, k)[i].axes = k
    /\ InstanceBecomes(PickInstance(Registries, k, i), "instance_pick", k)

\* a span is dragged on instance k: _on_span_select clears and draws, then
\* reads self._lines
SpanSelectOn(k, n_y, single_x) ==
    InstanceBecomes(DrawInstance(ClearInstance(Registries, k), k, n_y, single_x),
                    "instance_span", k)

InitInstances == InitialState(Constructed(<<>>))

NextInstances ==
    \/ \E k \in Instances, n_y \in 0..MaxSeries, single_x \in BOOLEAN :
            DrawOn(k, n_y, single_x)
    \/ \E k \in Instances : ClearOn(k)
    \/ \E k \in Instances, i \in 1..MaxSeries : PickOn(k, i)
    \/ \E k \in Instances, n_y \in 0..MaxSeries, single_x \in BOOLEAN :
            SpanSelectOn(k, n_y, single_x)

\* two widgets of one class under their events
SpecInstances == InitInstances /\ [][NextInstances]_vars

-----------------------------------------------------------------------------
(* The grid of axes (base.py) *)

\* the lines the grid methods find on the axes: two (x, y) series, drawn in
\* the default style or dashed in a colour of their own
GridLines ==
    {[x |-> <<0, 1, 2>>, y |-> <<0, 1, 4>>, color |-> "C0", linestyle |-> "-"],
     [x |-> <<0, 1>>, y |-> <<5, 3>>, color |-> "red", linestyle |-> "--"]}

\* the NapariMPLWidget whose grid is mutated
GridWidget ==
    [axes |-> figure_axes, previous_axes_list |-> previous_axes_list,
     widget_axes |-> widget_axes, printed |-> printed, err |-> "none"]

Line2D(x, y, color, linestyle) ==
    [x |-> x, y |-> y, color |-> color, linestyle |-> linestyle]

\* Axes.plot(x, y, color=..., linestyle=...) on the axes at position i
plot(g, i, x, y, color, linestyle) ==
    [g EXCEPT !.axes[i].lines = Append(@, Line2D(x, y, color, linestyle))]

\* self.axes = figure.subplots(): one axes in a grid of one row and one column
subplots(g) ==
    [g EXCEPT !.axes = <<[geometry |-> <<1, 1>>, lines |-> <<>>]>>,
              !.widget_axes = [exists |-> TRUE, live |-> TRUE]]

Cached_Line(x, y, color) == [x |-> x, y |-> y, color |-> color]

\* a Cached_Axes filled with the Cached_Line of every line of an axes
Cached_Axes(ax_lines) ==
    [lines |-> [j \in 1..Len(ax_lines) |->
                    Cached_Line(ax_lines[j].x, ax_lines[j].y, ax_lines[j].color)]]

\* gs.get_geometry()[0] of figure.axes[0]
nrows(g) == g.axes[1].geometry[1]

\* gs.get_geometry()[1] of figure.axes[0]
ncols(g) == g.axes[1].geometry[2]

\* the snapshot: every axes is cached and removed, if there is any; the axes
\* self.axes refers to is one of them, and the axes added afterwards are new
CacheAndRemoveAxes(g) ==
    IF Len(g.axes) > 0
    THEN [g EXCEPT !.previous_axes_list =
                        [i \in 1..Len(g.axes) |-> Cached_Axes(g.axes[i].lines)],
                   !.axes = <<>>,
                   !.widget_axes = [@ EXCEPT !.live = FALSE]]
    ELSE g

\* the replay gone wrong: the cached lines are plotted in the default colour
ReplayLines_default_color(cached) ==
    [j \in 1..Len(cached.lines) |->
        Line2D(cached.lines[j].x, cached.lines[j].y, "C0", "-")]

\* new_ax.plot(line.x, line.y, color=line.color) for every cached line
ReplayLines(cached) ==
    [j \in 1..Len(cached.lines) |->
        Line2D(cached.lines[j].x, cached.lines[j].y, cached.lines[j].color, "-")]

\* the new axes of a grid of rows x cols, each with the lines cached for its
\* position; previous_axes_list[i] beyond the cache is an IndexError, passed
AddSubplots(g, rows, cols) ==
    [g EXCEPT !.axes =
        [i \in 1..rows |->
            [geometry |-> <<rows, cols>>,
             lines |-> IF i <= Len(g.previous_axes_list)
                       THEN ReplayLines(g.previous_axes_list[i])
                       ELSE <<>>]]]

\* print(...)
PrintLine(g, text) == [g EXCEPT !.printed = text]

\* the row removal gone wrong: the grid of one row is not refused
_remove_row_axis_unguarded(g) ==
    IF Len(g.axes) = 0
    THEN Raise(g, "IndexError")
    ELSE AddSubplots(CacheAndRemoveAxes(g), nrows(g) - 1, ncols(g))

\* NapariMPLWidget._remove_row_axis; figure.axes[0] of a figure without axes
\* is an IndexError
_remove_row_axis(g) ==
    IF Len(g.axes) = 0
    THEN Raise(g, "IndexError")
    ELSE IF nrows(g) = 1
         THEN PrintLine(g, "Cannot remove first row axis.")
         ELSE AddSubplots(CacheAndRemoveAxes(g), nrows(g) - 1, ncols(g))

\* NapariMPLWidget._add_row_axis
_add_row_axis(g) ==
    IF Len(g.axes) = 0
    THEN Raise(PrintLine(g, "Axes added"), "IndexError")
    ELSE AddSubplots(CacheAndRemoveAxes(PrintLine(g, "Axes added")),
                     nrows(g) + 1, ncols(g))

\* the grid method has left the widget as g
GridBecomes(g, kind, idx) ==
    /\ events < MaxGridEvents
    /\ events' = events + 1
    /\ figure_axes' = g.axes
    /\ previous_axes_list' = g.previous_axes_list
    /\ widget_axes' = g.widget_axes
    /\ printed' = g.printed
    /\ last' = Event(kind, None, idx, g.err, <<>>)
    /\ UNCHANGED <<layers, metadata, plugin_name_key, x_axis_key, y_axis_key, lines,
                   selected_lines, selected_span_intervals, legend,
                   span_selection_active, legend_selection_active, raw_data,
                   class_lines, instance_lines>>

\* the first axes is created on the figure
Subplots ==
    /\ figure_axes = <<>>
    /\ GridBecomes(subplots(GridWidget), "subplots", 0)

\* a line is plotted on the axes at position i
Plot(i, line) ==
    /\ i \in 1..Len(figure_axes)
    /\ Len(figure_axes[i].lines) < MaxAxesLines
    /\ GridBecomes(plot(GridWidget, i, line.x, line.y, line.color, line.linestyle),
                   "plot", i)

AddRowAxis ==
    /\ Len(figure_axes) < MaxRows
    /\ GridBecomes(_add_row_axis(GridWidget), "add_row_axis", 0)

RemoveRowAxis == GridBecomes(_remove_row_axis(GridWidget), "remove_row_axis", 0)

InitGrid == InitialState(Constructed(<<>>))

NextGrid ==
    \/ Subplots
    \/ \E i \in 1..MaxRows, line \in GridLines : Plot(i, line)
    \/ AddRowAxis
    \/ RemoveRowAxis

\* the widget under calls of its grid methods and plots on its axes
SpecGrid == InitGrid /\ [][NextGrid]_vars

-----------------------------------------------------------------------------
(* Properties of the span selection *)

\* at least one line is drawn on the axes
LinesDrawn(lns) == Len(lns) > 0 /\ \A i \in 1..Len(lns) : lns[i].live

\* a span event handled without an exception, with the given modifiers
SpanEvent(e, modifiers) == e.kind = "span" /\ e.err = "none" /\ e.modifiers = modifiers

\* the x and the y coordinate arrays of a list of overlays
XOf(intervals) == [k \in 1..Len(intervals) |-> intervals[k].x]
YOf(intervals) == [k \in 1..Len(intervals) |-> intervals[k].y]

\* a list of sequences without its empty ones
NonEmpty(seqs) == SelectSeq(seqs, LAMBDA r : r # <<>>)

\* the samples of a series at a set of positions, in ascending position
SamplesAt(series, positions) ==
    [k \in 1..Cardinality(positions) |->
        series[CHOOSE p \in positions : Cardinality({q \in positions : q <= p}) = k]]

\* the insertion point of v into ascending x: the samples before it are below
\* v and the samples from it on are at least v (a Python index)
InsertionPoint(x, v) ==
    CHOOSE k \in 0..Len(x) : /\ \A i \in 1..k : x[i] < v
                             /\ \A i \in (k + 1)..Len(x) : x[i] >= v

\* the positions of the Python indices [indmin, indmax), indmax clamped to the
\* last valid index
IndexRange(x, xmin, xmax) ==
    {p \in 1..Len(x) : /\ InsertionPoint(x, xmin) <= p - 1
                       /\ p - 1 < Min(InsertionPoint(x, xmax), Len(x) - 1)}

\* the samples of a series at the index range, none when fewer than 2
IndexRangeSamples(series, x, xmin, xmax) ==
    IF Cardinality(IndexRange(x, xmin, xmax)) >= 2
    THEN SamplesAt(series, IndexRange(x, xmin, xmax))
    ELSE <<>>

\* the widget w, left by a span (xmin, xmax), holds as its stored selection
\* the samples at the index range of every line that has at least 2 of them
IndexRangeSelected(w, xmin, xmax) ==
    (w.err = "none" /\ LinesDrawn(w.lines))
    => /\ XOf(w.selected_span_intervals) =
            NonEmpty([i \in 1..Len(w.lines) |->
                IndexRangeSamples(w.lines[i].x, w.lines[i].x, xmin, xmax)])
       /\ YOf(w.selected_span_intervals) =
            NonEmpty([i \in 1..Len(w.lines) |->
                IndexRangeSamples(w.lines[i].y, w.lines[i].x, xmin, xmax)])
       /\ \A k \in 1..Len(w.selected_span_intervals) : w.selected_span_intervals[k].live

\* C1: a span applied with no modifier held selects for every drawn line
\* exactly the samples at the indices [indmin, indmax) of its X series, indmin
\* and indmax the insertion points of xmin and xmax and indmax clamped to the
\* last valid index, and selects nothing for a line with fewer than 2 such
\* samples: whatever the state the span arrives in, the stored overlays are
\* these sub-series, in line order.
C1_SpanSelectsIndexRange ==
    \A xmin \in 0..MaxSpanX, xmax \in 0..MaxSpanX :
        (span_selection_active /\ xmin <= xmax)
        => IndexRangeSelected(_on_span_select(Widget, xmin, xmax, NoModifier), xmin, xmax)

\* a span with no modifier has selected a sub-series of one of two drawn lines
\* and nothing of the other
C1_Witness ==
    /\ last.kind = "span"
    /\ last.modifiers = NoModifier
    /\ last.err = "none"
    /\ LinesDrawn(lines)
    /\ Len(lines) = 2
    /\ Len(selected_span_intervals) = 1
    /\ Len(selected_span_intervals[1].x) >= 2

\* the positions of the samples of x within [xmin, xmax]
WithinSpan(x, xmin, xmax) == {p \in 1..Len(x) : xmin <= x[p] /\ x[p] <= xmax}

\* the widget w, left by a span (xmin, xmax), holds for every line with at
\* least 2 samples within the span an overlay of exactly these samples
WholeIntervalSelected(w, xmin, xmax) ==
    (w.err = "none" /\ LinesDrawn(w.lines))
    => \A i \in 1..Len(w.lines) :
        Cardinality(WithinSpan(w.lines[i].x, xmin, xmax)) >= 2
        => \E k \in 1..Len(w.selected_span_intervals) :
            /\ w.selected_span_intervals[k].x =
                SamplesAt(w.lines[i].x, WithinSpan(w.lines[i].x, xmin, xmax))
            /\ w.selected_span_intervals[k].y =
                SamplesAt(w.lines[i].y, WithinSpan(w.lines[i].x, xmin, xmax))

\* C2: a span selects for each line all the samples with xmin <= X <= xmax,
\* also when the span reaches or passes the last sample and when xmax equals a
\* sample (stated for the lines with at least 2 such samples, no modifier held).
C2_SpanSelectsWholeInterval ==
    \A xmin \in 0..MaxSpanX, xmax \in 0..MaxSpanX :
        (span_selection_active /\ xmin <= xmax)
        => WholeIntervalSelected(_on_span_select(Widget, xmin, xmax, NoModifier),
                                 xmin, xmax)

\* the concatenation, line by line, of what two events selected
Joined(first, second) == [i \in 1..Len(first) |-> first[i] \o second[i]]

\* C3: of two consecutive span events on the same lines, with the modifier
\* held on both the stored selection of each line is the first event's
\* sub-series followed by the second event's (the first event having stored
\* its own sub-series only); with the modifier held on neither it is the
\* second event's sub-series only.
C3_ConsecutiveSpans ==
    [][(/\ LinesDrawn(lines) /\ LinesDrawn(lines')
        /\ XOf(lines') = XOf(lines)
        /\ XOf(selected_span_intervals) = NonEmpty(last.regions))
       => /\ (SpanEvent(last, ShiftModifier) /\ SpanEvent(last', ShiftModifier))
                => XOf(selected_span_intervals') =
                        NonEmpty(Joined(last.regions, last'.regions))
          /\ (SpanEvent(last, NoModifier) /\ SpanEvent(last', NoModifier))
                => XOf(selected_span_intervals') = NonEmpty(last'.regions)]_vars

\* C4: a span event keeps and extends the prior selection only when the
\* modifier is held and the stored selection count equals the number of drawn
\* lines; in every other case the prior selection is discarded and the stored
\* selection is this event's sub-series only.
C4_PriorSelectionDiscarded ==
    [][(/\ last'.kind = "span"
        /\ last'.err = "none"
        /\ LinesDrawn(lines')
        /\ ~(/\ last'.modifiers = ShiftModifier
             /\ Len(selected_span_intervals) = Len(lines')))
       => XOf(selected_span_intervals') = NonEmpty(last'.regions)]_vars

\* an event that runs _on_span_select: a span, or a right click
RunsSpanSelect(e) == e.kind = "span" \/ (e.kind = "click" /\ e.idx = 3)

\* the entry of a metadata dictionary (a missing one has no items)
Entry(d, key) == IF key \in DOMAIN d THEN d[key] ELSE [kind |-> "missing", val |-> <<>>]

\* the coordinate arrays as metadata holds them
Arrays(seqs) == PyList([k \in 1..Len(seqs) |-> NdArray1(seqs[k])])

\* C5: after a span event handled with at least one line drawn, the plugin's
\* metadata holds the full X and Y lists of the stored selection under
\* 'selected_interval_' + x key and 'selected_interval_' + y key, and no other
\* metadata entry has changed.
C5_SelectionPersisted ==
    [][(RunsSpanSelect(last') /\ last'.err = "none" /\ LinesDrawn(lines'))
       => /\ Entry(metadata'[layers'[1]][plugin_name_key'].val,
                   "selected_interval_" \o x_axis_key')
                = Arrays(XOf(selected_span_intervals'))
          /\ Entry(metadata'[layers'[1]][plugin_name_key'].val,
                   "selected_interval_" \o y_axis_key')
                = Arrays(YOf(selected_span_intervals'))
          /\ \A l \in Layers :
                /\ DOMAIN metadata'[l] = DOMAIN metadata[l]
                /\ \A k \in DOMAIN metadata[l] :
                    \/ metadata'[l][k] = metadata[l][k]
                    \/ /\ l = layers'[1]
                       /\ k = plugin_name_key'
                       /\ metadata'[l][k].kind = "dict"
                       /\ \A key \in (DOMAIN metadata'[l][k].val
                                        \cup DOMAIN metadata[l][k].val)
                                     \ {"selected_interval_" \o x_axis_key',
                                        "selected_interval_" \o y_axis_key'} :
                            /\ key \in DOMAIN metadata'[l][k].val
                            /\ key \in DOMAIN metadata[l][k].val
                            /\ metadata'[l][k].val[key] = metadata[l][k].val[key]]_vars

\* a span event has stored a selection and metadata holds it
C5_Witness ==
    /\ last.kind = "span"
    /\ last.err = "none"
    /\ LinesDrawn(lines)
    /\ Len(selected_span_intervals) = 2
    /\ Entry(metadata[layers[1]][plugin_name_key].val, "selected_interval_" \o x_axis_key)
            = Arrays(XOf(selected_span_intervals))

\* the persisted coordinate arrays of the widget's plugin, none when the
\* plugin's dictionary or the entry is missing
Persisted(key) ==
    IF /\ Len(layers) > 0
       /\ plugin_name_key \in DOMAIN metadata[layers[1]]
       /\ metadata[layers[1]][plugin_name_key].kind = "dict"
    THEN Entry(metadata[layers[1]][plugin_name_key].val, key).val
    ELSE <<>>

\* C6: after a span event the persisted selection list holds one coordinate
\* array per selected line: never more arrays than drawn lines, and every
\* array holds samples of one line only.
C6_OneArrayPerLine ==
    (RunsSpanSelect(last) /\ last.err = "none" /\ LinesDrawn(lines))
    => /\ Len(Persisted("selected_interval_" \o x_axis_key)) <= Len(lines)
       /\ \A k \in 1..Len(Persisted("selected_interval_" \o x_axis_key)) :
            \E i \in 1..Len(lines) :
                \A p \in 1..Len(Persisted("selected_interval_" \o x_axis_key)[k].val) :
                    \E q \in 1..Len(lines[i].x) :
                        /\ lines[i].x[q] =
                            Persisted("selected_interval_" \o x_axis_key)[k].val[p]
                        /\ lines[i].y[q] =
                            Persisted("selected_interval_" \o y_axis_key)[k].val[p]

\* the x data and the y data of the selected lines
SelectedData(series) ==
    Arrays([k \in 1..Len(selected_lines) |-> lines[selected_lines[k].idx][series]])

\* C7: a pick writes the coordinates of the selected lines back into the
\* plugin's metadata under 'selected_' + x key and 'selected_' + y key.
C7_PickPersisted ==
    (last.kind = "pick" /\ last.err = "none")
    => /\ Persisted("selected_" \o x_axis_key) = SelectedData("x").val
       /\ Persisted("selected_" \o y_axis_key) = SelectedData("y").val
       /\ Len(layers) > 0
       /\ plugin_name_key \in DOMAIN metadata[layers[1]]
       /\ ("selected_" \o x_axis_key) \in DOMAIN metadata[layers[1]][plugin_name_key].val
       /\ ("selected_" \o y_axis_key) \in DOMAIN metadata[layers[1]][plugin_name_key].val

\* no line is drawn on the axes and there is nothing to draw: not exactly one
\* layer selected, no nested metadata, or an axis key unset
NothingDrawn ==
    /\ \A i \in 1..Len(lines) : ~lines[i].live
    /\ \/ Len(layers) # 1
       \/ _get_valid_metadata_keys(Widget) = <<>>
       \/ x_axis_key = None
       \/ y_axis_key = None

\* C8: a span event that arrives while no lines are drawn (no or several
\* layers selected, no nested metadata, an axis key unset, also after lines
\* were drawn earlier) raises nothing and changes neither the stored span
\* selection nor any metadata.
C8_SpanWithoutLinesIsNoOp ==
    [][(NothingDrawn /\ last'.kind = "span")
       => /\ last'.err = "none"
          /\ XOf(selected_span_intervals') = XOf(selected_span_intervals)
          /\ metadata' = metadata]_vars

\* C9: the zero-width span _on_span_select(0, 0), as the right click runs it,
\* clears all span selections whatever modifier is held: with lines drawn the
\* stored selection is empty after it and the persisted lists are empty.
C9_ZeroWidthSpanClears ==
    [][(/\ \/ last'.kind = "click" /\ last'.idx = 3
           \/ \E modifiers \in KeyboardModifiers : SpanSelect(0, 0, modifiers)
        /\ last'.err = "none"
        /\ LinesDrawn(lines'))
       => /\ selected_span_intervals' = <<>>
          /\ Entry(metadata'[layers'[1]][plugin_name_key'].val,
                   "selected_interval_" \o x_axis_key') = PyList(<<>>)
          /\ Entry(metadata'[layers'[1]][plugin_name_key'].val,
                   "selected_interval_" \o y_axis_key') = PyList(<<>>)]_vars

-----------------------------------------------------------------------------
(* Properties of picking *)

\* a line counts as selected when its selected property is True
IsSelected(line) == line.selected = "True"

\* the line at position i is in the list of the selected lines
InSelectedLines(sel, i) == \E k \in 1..Len(sel) : sel[k] = LineRef(i)

\* an event whose handler redraws the plot
Redraws(e) ==
    e.err = "none" /\ (e.kind \in {"update_layers", "current_step", "set_axis_keys", "span"}
                       \/ (e.kind = "click" /\ e.idx = 3))

\* C10: every line is unselected right after it is drawn; a pick on an
\* unselected line makes it selected (dashed, in the selected list) and a pick
\* on a selected line makes it unselected (solid, not in the selected list),
\* so that an even number of picks restores the line; a pick on one line
\* changes no other line.
C10_PickToggles ==
    [][/\ Redraws(last')
            => \A i \in 1..Len(lines') :
                lines'[i].live => /\ ~IsSelected(lines'[i])
                                  /\ lines'[i].linestyle = "-"
                                  /\ ~InSelectedLines(selected_lines', i)
       /\ \A artist \in Pickable :
            Pick(artist)
            => /\ last'.err = "none"
               /\ IsSelected(lines'[artist.idx]) = ~IsSelected(lines[artist.idx])
               /\ lines'[artist.idx].linestyle =
                    (IF IsSelected(lines[artist.idx]) THEN "-" ELSE "--")
               /\ InSelectedLines(selected_lines', artist.idx)
                    = ~IsSelected(lines[artist.idx])
               /\ lines'[artist.idx].x = lines[artist.idx].x
               /\ lines'[artist.idx].y = lines[artist.idx].y
               /\ Len(lines') = Len(lines)
               /\ \A j \in 1..Len(lines) :
                    j # artist.idx
                    => /\ lines'[j] = lines[j]
                       /\ InSelectedLines(selected_lines', j)
                            = InSelectedLines(selected_lines, j)]_vars

\* a line has been picked twice and is unselected again, next to a selected one
C10_Witness ==
    /\ last.kind = "pick"
    /\ last.err = "none"
    /\ Len(lines) = 2
    /\ lines[last.idx].selected = "False"
    /\ lines[last.idx].linestyle = "-"
    /\ ~InSelectedLines(selected_lines, last.idx)
    /\ IsSelected(lines[3 - last.idx])

\* C11: with legend-pick mode active the i-th legend entry is linked to the
\* i-th line of the most recent draw, a pick on the legend entry leaves the
\* widget exactly as a pick on that line does, and in every reachable state a
\* legend entry is dashed if and only if its line is selected.
C11_LegendLinked ==
    (legend_selection_active /\ LinesDrawn(lines))
    => /\ legend.exists /\ legend.live
       /\ Len(legend.handles) = Len(lines)
       /\ \A i \in 1..Len(lines) :
            /\ legend.legend2line[i] = i
            /\ (legend.handles[i].linestyle = "--") = IsSelected(lines[i])
            /\ _on_pick(Widget, [via |-> "legend", idx |-> i])
                = _on_pick(Widget, [via |-> "line", idx |-> i])

\* after a pick one of two lines is selected and its legend entry is dashed,
\* the other legend entry is solid
C11_Witness ==
    /\ last.kind = "pick"
    /\ last.err = "none"
    /\ legend_selection_active
    /\ LinesDrawn(lines)
    /\ Len(lines) = 2
    /\ IsSelected(lines[last.idx])
    /\ legend.handles[last.idx].linestyle = "--"
    /\ legend.handles[3 - last.idx].linestyle = "-"

-----------------------------------------------------------------------------
(* Properties of the redraw *)

\* C13: after every layer-selection-changed notification the plugin metadata
\* key, the x axis key and the y axis key are all unset (None, or never
\* assigned).
C13_KeysResetOnLayerChange ==
    last.kind = "update_layers"
    => /\ plugin_name_key \in {None, NoAttr}
       /\ x_axis_key = None
       /\ y_axis_key = None

\* exactly one layer is selected, its metadata has a nested dictionary and
\* both axis keys are set
ReadyToDraw ==
    /\ Len(layers) = 1
    /\ _get_valid_metadata_keys(Widget) # <<>>
    /\ x_axis_key # None
    /\ y_axis_key # None

\* the series the current plugin key and axis key name, <<>> when they name none
CurrentSeries(axis_key) ==
    IF /\ Len(layers) > 0
       /\ plugin_name_key \in DOMAIN metadata[layers[1]]
       /\ metadata[layers[1]][plugin_name_key].kind = "dict"
       /\ axis_key \in DOMAIN metadata[layers[1]][plugin_name_key].val
    THEN warp_to_list(metadata[layers[1]][plugin_name_key].val[axis_key]).val
    ELSE <<>>

\* the drawn lines are those of the current plugin key and axis keys: one line
\* per y series, line i with the coordinates of x series i and y series i
LinesOfCurrentKeys ==
    /\ Len(lines) = Len(CurrentSeries(y_axis_key))
    /\ \A i \in 1..Len(lines) :
        /\ i <= Len(CurrentSeries(x_axis_key))
        /\ lines[i].x = CurrentSeries(x_axis_key)[i].val
        /\ lines[i].y = CurrentSeries(y_axis_key)[i].val

\* C14: after a dimension-step-changed or layer-selection-changed
\* notification the canvas shows lines if and only if exactly one layer is
\* selected, its metadata has a nested dictionary and both axis keys are set;
\* otherwise it is blank; no error is raised, and the lines shown are built
\* from the current metadata values.
C14_RedrawOnNotification ==
    last.kind \in {"current_step", "update_layers"}
    => /\ last.err = "none"
       /\ LinesDrawn(lines) = ReadyToDraw
       /\ \A i \in 1..Len(lines) : lines[i].live = ReadyToDraw
       /\ LinesDrawn(lines) => LinesOfCurrentKeys

\* C15: every change by the user of the plugin name, of the x axis key or of
\* the y axis key clears and redraws: after it the lines on the canvas are
\* those of the current plugin key and axis keys.
C15_RedrawOnKeyChange ==
    (last.kind \in {"set_plugin_name", "set_axis_keys"} /\ LinesDrawn(lines))
    => LinesOfCurrentKeys

-----------------------------------------------------------------------------
(* Properties of the mode toggles *)

\* C16: switching span-select mode or legend-pick mode on or off, any number
\* of times, leaves the drawn lines with their selection state, the legend,
\* the list of the selected lines, the stored span selection, the keys and the
\* layer metadata unchanged: only the two enablement flags can change.
C16_TogglesKeepPlot ==
    [][(last'.kind \in {"enable_span_selector", "enable_legend_selector"})
       => /\ last'.err = "none"
          /\ lines' = lines
          /\ legend' = legend
          /\ selected_lines' = selected_lines
          /\ selected_span_intervals' = selected_span_intervals
          /\ metadata' = metadata
          /\ layers' = layers
          /\ plugin_name_key' = plugin_name_key
          /\ x_axis_key' = x_axis_key
          /\ y_axis_key' = y_axis_key]_vars

\* legend-pick mode has been switched off with a selected line on the canvas
C16_Witness ==
    /\ last.kind = "enable_legend_selector"
    /\ ~legend_selection_active
    /\ LinesDrawn(lines)
    /\ \E i \in 1..Len(lines) : IsSelected(lines[i])

-----------------------------------------------------------------------------
(* Properties of the grid *)

SameLine(a, b) == a.x = b.x /\ a.y = b.y /\ a.color = b.color

\* after holds, in as many rows as g, the lines of g at every position
RestoredBy(g, after) ==
    /\ after.err = "none"
    /\ Len(after.axes) = Len(g.axes)
    /\ \A i \in 1..Len(g.axes) :
        /\ after.axes[i].geometry = g.axes[i].geometry
        /\ Len(after.axes[i].lines) = Len(g.axes[i].lines)
        /\ \A j \in 1..Len(g.axes[i].lines) :
                SameLine(after.axes[i].lines[j], g.axes[i].lines[j])

\* C17: in a grid of R >= 1 rows, adding one row and then removing one row
\* leaves R rows and gives every axis position 1..R lines of the same
\* coordinates and the same colour, in the same order, as it held before.
C17_AddThenRemoveRestores ==
    figure_axes # <<>>
    => RestoredBy(GridWidget, _remove_row_axis(_add_row_axis(GridWidget)))

\* a row has been added and removed again under an axes of two lines
C17_Witness ==
    /\ last.kind = "remove_row_axis"
    /\ last.err = "none"
    /\ Len(previous_axes_list) = Len(figure_axes) + 1
    /\ Len(figure_axes[1].lines) = 2
    /\ figure_axes[1].lines[1].color # figure_axes[1].lines[2].color

\* C18: removing a row from a grid of one row is rejected: the axes, their
\* lines and the cached snapshot stay as they are, the rejection is printed and
\* nothing is raised; and no axes ever belongs to a grid of less than one row.
C18_UnderflowRejected ==
    /\ [](\A i \in 1..Len(figure_axes) : figure_axes[i].geometry[1] >= 1)
    /\ [][(/\ figure_axes # <<>>
           /\ nrows(GridWidget) = 1
           /\ last'.kind = "remove_row_axis")
          => /\ figure_axes' = figure_axes
             /\ previous_axes_list' = previous_axes_list
             /\ printed' = "Cannot remove first row axis."
             /\ last'.err = "none"]_vars

\* the removal of the only row has been refused with a line on the axes and a
\* snapshot in the cache
C18_Witness ==
    /\ last.kind = "remove_row_axis"
    /\ printed = "Cannot remove first row axis."
    /\ Len(figure_axes) = 1
    /\ figure_axes[1].lines # <<>>
    /\ previous_axes_list # <<>>

\* C19: a grid resize requested while the figure has no axes skips the
\* snapshot and the replay, builds an empty grid and raises nothing.
C19_ResizeWithoutAxes ==
    [][(figure_axes = <<>> /\ last'.kind \in {"add_row_axis", "remove_row_axis"})
       => /\ last'.err = "none"
          /\ previous_axes_list' = previous_axes_list
          /\ \A i \in 1..Len(figure_axes') : figure_axes'[i].lines = <<>>]_vars

\* C30: after any sequence of grid resizes the axes the widget clears and
\* draws into, self.axes, is one of the axes of the figure's current grid.
C30_WidgetAxesInGrid == widget_axes.exists => widget_axes.live

-----------------------------------------------------------------------------
(* Properties of the series normalization *)

\* a single flat sequence of numbers: a 1D array or a flat list
IsFlat(raw) == raw.kind \in {"ndarray1", "numlist"}

\* the entry of plugin1 under the key, as the layer holds it
RawEntry(axis_key) == metadata[1]["plugin1"].val[axis_key]

\* C20: a flat series (1D array or flat list of numbers) normalizes to a list
\* of one element holding that sequence, and once a flat X series and a flat Y
\* series of equal length are selected the canvas shows exactly one line, of
\* those coordinates.
C20_FlatSeriesDrawOneLine ==
    (/\ last.kind = "set_axis_keys"
     /\ plugin_name_key = "plugin1"
     /\ x_axis_key = "t" /\ y_axis_key = "v"
     /\ IsFlat(RawEntry("t")) /\ IsFlat(RawEntry("v")))
    => /\ warp_to_list(RawEntry("t")) = PyList(<<NumList(RawEntry("t").val)>>)
       /\ warp_to_list(RawEntry("v")) = PyList(<<NumList(RawEntry("v").val)>>)
       /\ last.err = "none"
       /\ Len(lines) = 1
       /\ lines[1].live
       /\ lines[1].x = RawEntry("t").val
       /\ lines[1].y = RawEntry("v").val

-----------------------------------------------------------------------------
(* Properties of the draw *)

\* C21: a draw creates one line per y series, in the order of the y series:
\* a single x series is the x of every line, several x series are paired with
\* the y series by position; after it the widget holds as many lines as there
\* are y series.
C21_OneLinePerYSeries ==
    (/\ last.kind = "set_axis_keys"
     /\ Len(layers) = 1
     /\ CurrentSeries(x_axis_key) # <<>>
     /\ CurrentSeries(y_axis_key) # <<>>
     /\ \/ Len(CurrentSeries(x_axis_key)) = 1
        \/ Len(CurrentSeries(x_axis_key)) = Len(CurrentSeries(y_axis_key)))
    => /\ last.err = "none"
       /\ Len(lines) = Len(CurrentSeries(y_axis_key))
       /\ \A i \in 1..Len(lines) :
            /\ lines[i].live
            /\ lines[i].y = CurrentSeries(y_axis_key)[i].val
            /\ lines[i].x = CurrentSeries(x_axis_key)[
                                IF Len(CurrentSeries(x_axis_key)) = 1 THEN 1 ELSE i].val

-----------------------------------------------------------------------------
(* Properties of the normalization *)

\* C22: a value that is none of 1D sequence, 2D sequence, list of sequences
\* or tabular frame (a scalar, a string, a dictionary) makes the normalization
\* fail with UnsupportedSeriesType: it is never returned, unchanged or coerced.
C22_UnsupportedValueRejected ==
    [][(last'.kind = "warp_to_list" /\ raw_data \in UnsupportedValues)
       => last'.err = "UnsupportedSeriesType"]_vars

\* C23: the normalization is idempotent: applied to what it has returned, for
\* a 1D array, a 2D array, a list of arrays or a frame, it returns an equal
\* list.
C23_NormalizationIdempotent ==
    [][(last.kind = "warp_to_list" /\ last'.kind = "warp_to_list")
       => /\ last'.err = "none"
          /\ raw_data' = raw_data]_vars

\* the normalization has been applied a second time to a list of two series
\* of two samples
C23_Witness ==
    /\ last.kind = "warp_to_list"
    /\ events = 2
    /\ raw_data.kind = "list"
    /\ Len(raw_data.val) = 2
    /\ Len(raw_data.val[1].val) = 2

-----------------------------------------------------------------------------
(* Properties of the stored selection *)

\* the stored sub-series holds the samples a..b of the line, in their order
IsIndexRangeOf(interval, line) ==
    \E a \in 1..Len(line.x), b \in 1..Len(line.x) :
        /\ a <= b
        /\ interval.x = SubSeq(line.x, a, b)
        /\ interval.y = SubSeq(line.y, a, b)

\* C24: after span events, with or without the modifier, every stored
\* selected sub-series is a contiguous index range of the samples of one drawn
\* line, in their original order: no sample twice, none out of order.
C24_StoredSelectionContiguous ==
    (last.kind = "span" /\ last.err = "none")
    => \A k \in 1..Len(selected_span_intervals) :
            \E i \in 1..Len(lines) :
                lines[i].live /\ IsIndexRangeOf(selected_span_intervals[k], lines[i])

\* C28: after a span event the overlays on the canvas and the stored span
\* selections, which the metadata holds, are the same: every stored and
\* persisted selection has its overlay on the canvas.  (The overlays of the
\* canvas are the stored ones that axes.clear() has not removed: an overlay
\* that is not stored cannot be told here.)
C28_OverlaysMatchStored ==
    (last.kind = "span" /\ last.err = "none" /\ LinesDrawn(lines))
    => /\ \A k \in 1..Len(selected_span_intervals) : selected_span_intervals[k].live
       /\ Len(Persisted("selected_interval_" \o x_axis_key))
            = Len(selected_span_intervals)
       /\ Len(Persisted("selected_interval_" \o y_axis_key))
            = Len(selected_span_intervals)

-----------------------------------------------------------------------------
(* Properties of the line registry *)

\* every line of the registry is on the axes
AllOnAxes(lns) == \A i \in 1..Len(lns) : lns[i].live

\* C25: the lines a pick, click or span handler finds in self._lines are the
\* lines of the most recent redraw, all of them on the axes: never a line
\* that a clear has removed, a redraw that left the canvas blank included.
\* (A pick and a click read the registry as the event finds it, a span event
\* reads it after its own clear and draw.)
C25_HandlersSeeDrawnLines ==
    [][/\ last'.kind \in {"pick", "click"} => AllOnAxes(lines)
       /\ last'.kind = "span" => AllOnAxes(lines')]_vars

C27_SelectedListMatchesLines ==
    /\ \A k \in 1..Len(selected_lines) :
        /\ selected_lines[k].live
        /\ selected_lines[k].idx \in 1..Len(lines)
        /\ lines[selected_lines[k].idx].live
        /\ IsSelected(lines[selected_lines[k].idx])
    /\ \A i \in 1..Len(lines) :
        (lines[i].live /\ IsSelected(lines[i])) => InSelectedLines(selected_lines, i)

-----------------------------------------------------------------------------
(* Properties of the right click *)

\* C29: the right click raises nothing in any state, also before a line has
\* been drawn, with no layer selected or with an axis key unset; in these
\* states it changes neither the selection nor the metadata.
C29_ClearSelectionsNeverRaises ==
    [][(last'.kind = "click" /\ last'.idx = 3)
       => /\ last'.err = "none"
          /\ (lines = <<>> \/ Len(layers) = 0 \/ x_axis_key = None \/ y_axis_key = None)
                => /\ selected_lines' = selected_lines
                   /\ selected_span_intervals' = selected_span_intervals
                   /\ metadata' = metadata]_vars

-----------------------------------------------------------------------------
(* Properties of two widgets *)

\* what self._lines evaluates to in instance j, given the lists
Observed(of_class, of_instances, j) ==
    IF of_instances[j].attr = "own" THEN of_instances[j].val ELSE of_class

\* C31: with two line widgets alive, no draw, pick, span selection or clear of
\* one widget changes what the other widget finds in self._lines: the list of
\* the class is never mutated and a widget changes its own list only.
C31_InstancesDoNotInterfere ==
    /\ [](class_lines = <<>>)
    /\ [][\A j \in Instances :
            (/\ last'.kind \in {"instance_draw", "instance_clear",
                                "instance_pick", "instance_span"}
             /\ last'.idx # j)
            => /\ instance_lines'[j] = instance_lines[j]
               /\ Observed(class_lines', instance_lines', j)
                    = Observed(class_lines, instance_lines, j)]_vars

\* a line of widget 1 has been picked while widget 2 shows lines of its own
C31_Witness ==
    /\ last.kind = "instance_pick"
    /\ last.idx = 1
    /\ Len(Observed(class_lines, instance_lines, 1)) = 2
    /\ Len(Observed(class_lines, instance_lines, 2)) = 1
    /\ Observed(class_lines, instance_lines, 2)[1].live
    /\ \E i \in 1..2 : IsSelected(Observed(class_lines, instance_lines, 1)[i])

====
